---- MODULE Spec2Model ----
(***************************************************************************)
(* Verification model of the PDF question-answering service: the chunked   *)
(* ingestion task (app/task.py, app/database/add_pdf.py), delete-by-id     *)
(* (app/database/delete_pdf.py), the two-stage similarity retrieval        *)
(* (app/database/get_similarity.py), the answer route with its cache      *)
(* (app/routes.py, app/redis_cache.py), the add route with its task queue  *)
(* (app/routes.py), and the schema set-up of the process start             *)
(* (app/database/create_table.py).                                         *)
(***************************************************************************)
EXTENDS Integers, Sequences, FiniteSets, TLC

(***************************************************************************)
(* Bounds of the model.                                                    *)
(***************************************************************************)
\* how many times emb_and_store is started in one behaviour
MaxIngests == 2
\* how many times delete_pdf_id is started in one behaviour
MaxDeletes == 1

(***************************************************************************)
(* Values.                                                                 *)
(***************************************************************************)
None == "None"

\* the raw byte strings that are uploaded
Pdfs == {"pdfA", "pdfB"}

\* workers that run emb_and_store (celery workers, or request threads on
\* the synchronous path)
Procs == {"w1", "w2"}

\* constants.py: CHUNK_SIZE = 420 and CHUNK_OVERLAP = 100 characters; the
\* model counts text in blocks of 140 characters (3 blocks and 1 block,
\* the overlap rounded up to a whole block)
CHUNK_SIZE == 3
CHUNK_OVERLAP == 1

\* position of a letter, used to derive a text's embedding
Code(ch) == CASE ch = "a" -> 0 [] ch = "b" -> 1 [] ch = "c" -> 2 [] OTHER -> 3

\* the embedding space: an embedding is a point 0..EmbMax, and the cosine
\* distance of two embeddings is their gap in halves (0 .. 2.0)
EmbMax == 4

RECURSIVE SumCodes(_)
SumCodes(s) == IF s = <<>> THEN 0 ELSE Code(Head(s)) + SumCodes(Tail(s))

\* hashlib.sha256(x).hexdigest(): collision resistant, so injective here
Sha256(x) == <<"sha256", x>>

\* the text pypdf extracts from the bytes
PdfText(b) == IF b = "pdfA" THEN <<"b", "a", "c", "c", "a">> ELSE <<"c", "b">>

\* extract_data_from_pdf: (id, text) of the raw bytes
extract_data_from_pdf(b) == <<Sha256(b), PdfText(b)>>

\* RecursiveCharacterTextSplitter(chunk_size, chunk_overlap).split_text:
\* windows of at most CHUNK_SIZE, each starting CHUNK_SIZE - CHUNK_OVERLAP
\* after the one before, in original order; a text that fits is one chunk
RECURSIVE SplitFrom(_, _)
SplitFrom(content, start) ==
    IF start + CHUNK_SIZE - 1 >= Len(content)
    THEN <<SubSeq(content, start, Len(content))>>
    ELSE <<SubSeq(content, start, start + CHUNK_SIZE - 1)>>
         \o SplitFrom(content, start + (CHUNK_SIZE - CHUNK_OVERLAP))

split_text(content) == IF content = <<>> THEN <<>> ELSE SplitFrom(content, 1)

\* model.encode of one text (normalised): determined by the text
Encode(text) == SumCodes(text) % (EmbMax + 1)

\* generate_embedding: one embedding per input, or [] when the model raised
generate_embedding(texts, ok) ==
    IF ok THEN [i \in 1..Len(texts) |-> Encode(texts[i])] ELSE <<>>

\* _get_data_for_db: section 0 is the full content, then the chunks; one
\* dict per embedding returned (none when generate_embedding returned [])
\* the list without the full content at index 0
text_to_embed_NoFull(content) == split_text(content)

\* task.py 100-102: the full content at index 0, then the chunks
text_to_embed(content) == <<content>> \o split_text(content)

\* (the returned value is a list, never None: is_none is always FALSE)
_get_data_for_db(id_, content, ok) ==
    LET texts == text_to_embed(content)
        emb_inputs == generate_embedding(texts, ok)
    IN  [is_none |-> FALSE,
         rows |-> [i \in 1..Len(emb_inputs) |->
                     [rowid |-> id_, text |-> texts[i],
                      embedding |-> emb_inputs[i], section |-> i - 1]]]

\* the rows a complete ingestion of b writes
FullSet(b) ==
    LET d == _get_data_for_db(Sha256(b), PdfText(b), TRUE).rows
    IN  {d[i] : i \in 1..Len(d)}

(***************************************************************************)
(* The parameters of the vector index (app/database/create_table.py        *)
(* 560-575).  Reals are fixed-point numbers in units of 1/Scale; the       *)
(* natural logarithm is tabulated in thousandths.                          *)
(***************************************************************************)
\* the unit of the fixed-point numbers: 500 (vector_dimension / 500) times
\* 1000 (the thousandths of the logarithm)
Scale == 500 * 1000

EXPECTED_SIZE_OF_DB == 5000000
vector_dimension == 1024
\* "maximum m value in pg_vector"
MaxM == 64

\* math.log(n), natural, in thousandths
LnMilli(n) ==
    CASE n = 1 -> 0
      [] n = 2 -> 693
      [] n = 10 -> 2302
      [] n = 1000 -> 6907
      [] n = 100000 -> 11512
      [] n = 5000000 -> 15424

\* the quotient rounded down instead of up
Ceil_Floor(a, b) == a \div b

\* math.ceil(a / b) for b > 0
Ceil(a, b) == 0 - ((0 - a) \div b)

\* lines 564-573 without the cap of line 566-567
IndexParams_NoCap(n, dim) ==
    LET dimensionality == LnMilli(n) * (500 + dim)
        temp_m == 2 * (dimensionality - Scale)
        m == temp_m
        ef_construction == (2 * m) + (dim * (Scale \div 10))
    IN  [m |-> m, ef_construction |-> Ceil(ef_construction, 100 * Scale) * 100]

\* lines 564-575 for a corpus of n rows and vectors of dim dimensions: m in
\* units of 1/Scale, ef_construction a whole number
IndexParams(n, dim) ==
    LET dimensionality == LnMilli(n) * (500 + dim)
        temp_m == 2 * (dimensionality - Scale)
        m == IF temp_m > MaxM * Scale THEN MaxM * Scale ELSE temp_m
        ef_construction == (2 * m) + (dim * (Scale \div 10))
    IN  [m |-> m, ef_construction |-> Ceil(ef_construction, 100 * Scale) * 100]

\* _get_vector_index_params(): the two inputs are fixed in the function
_get_vector_index_params == IndexParams(EXPECTED_SIZE_OF_DB, vector_dimension)

CorpusSizes == {1, 2, 10, 1000, 100000, EXPECTED_SIZE_OF_DB}
Dimensions == {10, 384, vector_dimension}


(***************************************************************************)
(* State.                                                                  *)
(***************************************************************************)
VARIABLES
    store,      \* the committed rows of table embeddings
    task,       \* per worker: the running emb_and_store call
    ret,        \* per worker: how its last emb_and_store call ended
    ing,        \* per pdf: history of its ingestions (ghost)
    started,    \* emb_and_store calls started so far
    del,        \* the running delete_pdf_id call
    deletes,    \* delete_pdf_id calls started so far
    rd,         \* the running get_similarity call, and how the last one ended
    now,        \* the clock of the cache server
    redis_up,   \* whether the cache server answers
    cache,      \* the entries of the cache: key, value, time of expiry
    cc,         \* the last direct call of get_cache or set_cache
    req,        \* per client: the running /answer_question request
    resp,       \* per client: the response to its last request
    served,     \* how many requests went past a passed health check
    requests,   \* /answer_question requests received so far
    add,        \* the /add_pdf request of the web process, and its response
    adds,       \* /add_pdf requests received so far
    jobs,       \* the emb_and_store jobs handed to the task queue, in order
    workers_up, \* whether a celery worker answers
    db,         \* the schema of the database: extension, table, indexes
    en,         \* the running create_table call, and how the last one ended
    pr,         \* the last two computations of the vector index parameters
    cn          \* the running connect_to_db call, and how the last one ended

storeVars == <<store, task, ret, ing, started, del, deletes>>
cacheVars == <<now, redis_up, cache, cc>>
routeVars == <<req, resp, served, requests>>
addVars == <<add, adds, jobs, workers_up>>
schemaVars == <<db, en, pr, cn>>

vars == <<storeVars, rd, cacheVars, routeVars, addVars, schemaVars>>

\* what the ingestion and delete steps leave alone
notStore == <<rd, cacheVars, routeVars, addVars, schemaVars>>
\* what a retrieval leaves alone
notReader == <<storeVars, cacheVars, routeVars, addVars, schemaVars>>

Idle == [pc |-> "idle"]
NoRet == [kind |-> "none"]

\* no delete_pdf_id call yet; out tells how the last call ended
NoDelete == [pc |-> "idle", id |-> None, out |-> "none"]

\* the clients of the answer route
Clients == {"c1", "c2"}

\* the cache and the route before any request
InitCache ==
    /\ now = 0
    /\ redis_up = TRUE
    /\ cache = {}
    /\ cc = [op |-> "none"]

InitRoute ==
    /\ req = [c \in Clients |-> Idle]
    /\ resp = [c \in Clients |->
                 [status |-> 0, message |-> "", data |-> <<>>,
                  path |-> "none", invoked |-> FALSE, text |-> <<>>,
                  filters |-> <<>>, key |-> [error |-> "", key |-> <<>>],
                  no |-> 0, at |-> 0, answer |-> <<>>]]
    /\ served = 0
    /\ requests = 0

\* no /add_pdf request yet, an empty task queue, a worker running
NoAdd ==
    [pc |-> "idle", pdf |-> "", mode |-> "none", redis_ok |-> FALSE,
     worker_ok |-> FALSE, checks |-> 0, ran |-> FALSE, status |-> 0]

InitAdd ==
    /\ add = NoAdd
    /\ adds = 0
    /\ jobs = <<>>
    /\ workers_up = TRUE

\* no computation of the index parameters yet
NoParams == [n |-> 0, dim |-> 0, m |-> 0, ef_construction |-> 0]

InitParams == pr = [last |-> NoParams, prev |-> NoParams]

\* no connect_to_db call yet: retries is the local of line 41, attempts the
\* psycopg2.connect calls of the call, failures the passes through the
\* except clause, slept the seconds spent in sleep, opened the connections
\* the call opened, prev how the call before ended
NoConnect ==
    [pc |-> "idle", retries |-> 0, attempts |-> 0, failures |-> 0,
     slept |-> 0, opened |-> 0, result |-> "none", prev |-> "none",
     calls |-> 0]

InitConnect == cn = NoConnect

\* the columns create_table expects (_get_expected_columns_schema)
ExpectedColumns == {"id", "rowid", "text", "embedding", "section"}

\* an index on the embedding column: its method and its storage parameters
\* in the order pg_indexes prints them
NoIndex == [method |-> "none", opts |-> <<>>]
Hnsw(m, ef) ==
    [method |-> "hnsw",
     opts |-> <<[k |-> "m", v |-> m], [k |-> "ef_construction", v |-> ef]>>]

\* CREATE INDEX ... WITH (M={m}, ef_construction={ef_construction}): the
\* index the query of _get_vector_index_query creates
ComputedIndex ==
    Hnsw(_get_vector_index_params.m \div Scale,
         _get_vector_index_params.ef_construction)

\* the database after create_table on an empty database
Ensured ==
    [ext |-> TRUE, table |-> TRUE, dim |-> vector_dimension,
     cols |-> ExpectedColumns, idx_id |-> TRUE, vindex |-> ComputedIndex]

NoCall ==
    [pc |-> "idle", result |-> "none", tx |-> Ensured, pre |-> Ensured,
     pre_rows |-> {}, locked |-> FALSE, after_ok |-> FALSE,
     table_drops |-> 0, index_remakes |-> 0,
     idx_done |-> FALSE, idx_before |-> NoIndex, calls |-> 0,
     open |-> 0, open_before |-> 0]

InitSchema ==
    /\ db = Ensured
    /\ en = NoCall

\* INSERT INTO embeddings (rowid, text, embedding, section): the new row gets
\* a fresh id; the model numbers the copies of equal rows instead of drawing
\* the id from the sequence (the id only tells equal rows apart)
Copies(s, pdf) ==
    {r \in s : /\ r.rowid = pdf.rowid /\ r.text = pdf.text
               /\ r.embedding = pdf.embedding /\ r.section = pdf.section}

\* an INSERT under a uniqueness constraint on (rowid, section) with upsert
Inserted_Upsert(s, pdf) ==
    IF Copies(s, pdf) # {} THEN s
    ELSE s \cup {[id |-> 1, rowid |-> pdf.rowid, text |-> pdf.text,
                  embedding |-> pdf.embedding, section |-> pdf.section]}

\* INSERT INTO embeddings (...) VALUES (...): the table has the serial id
\* as its only key (create_table.py 519-529, idx_db_id is not unique), so
\* a row of the same content goes in again
Inserted(s, pdf) ==
    s \cup {[id |-> Cardinality(Copies(s, pdf)) + 1, rowid |-> pdf.rowid,
             text |-> pdf.text, embedding |-> pdf.embedding,
             section |-> pdf.section]}

RowsOf(s, id_) == {r \in s : r.rowid = id_}

\* SELECT EXISTS(SELECT 1 FROM embeddings WHERE rowid = %s)
ExistsQuery(s, id_) == RowsOf(s, id_) # {}

Init ==
    /\ store = {}
    /\ task = [p \in Procs |-> Idle]
    /\ ret = [p \in Procs |-> NoRet]
    /\ ing = [b \in Pdfs |-> [started |-> 0, finished |-> 0, sequential |-> TRUE,
                              first_full |-> FALSE, last |-> "none"]]
    /\ started = 0
    /\ del = NoDelete
    /\ deletes = 0
    /\ rd = Idle
    /\ InitCache
    /\ InitRoute
    /\ InitAdd
    /\ InitParams
    /\ InitConnect
    /\ InitSchema

(***************************************************************************)
(* emb_and_store (app/task.py), one call per worker at a time.             *)
(***************************************************************************)
InFlight(b) == {p \in Procs : task[p].pc # "idle" /\ task[p].pdf = b}

\* how a call ends: kind names the return site of emb_and_store
\*   "AlreadyExists"   line 39   "EmbeddingFailed" line 47
\*   "Stored"          line 52   "Raised"          line 56
Return(p, kind, t) ==
    /\ ret' = [ret EXCEPT ![p] =
                 [kind |-> kind, pdf |-> t.pdf, data |-> t.data,
                  wrote |-> t.wrote, failed |-> t.failed, emb_ok |-> t.emb_ok,
                  check_error |-> t.check_error]]
    /\ task' = [task EXCEPT ![p] = Idle]
    /\ ing' = [ing EXCEPT ![t.pdf].finished = @ + 1,
                          ![t.pdf].last = kind,
                          ![t.pdf].first_full =
                              IF ing[t.pdf].finished = 0
                              THEN kind = "Stored" /\ t.wrote = Len(t.data) /\ t.wrote > 0
                              ELSE @]

\* the task is called with the raw bytes: lines 33-34
Called(p, b) ==
    /\ task[p].pc = "idle"
    /\ started' = started + 1
    /\ LET ex == extract_data_from_pdf(b)
       IN  task' = [task EXCEPT ![p] =
                      [pc |-> "check", pdf |-> b, id |-> ex[1], content |-> ex[2],
                       data |-> <<>>, i |-> 1, wrote |-> 0, failed |-> {},
                       emb_ok |-> TRUE, check_error |-> FALSE]]
    /\ ret' = [ret EXCEPT ![p] = NoRet]
    /\ ing' = [ing EXCEPT ![b].started = @ + 1,
                          ![b].sequential = @ /\ InFlight(b) = {}]
    /\ UNCHANGED <<store, del, deletes>>

\* a call of the task by any caller
StartIngest(p, b) ==
    /\ started < MaxIngests
    /\ Called(p, b)
    /\ UNCHANGED notStore

\* get_entry_from_db, task_helpers.py 23-38: the query's answer, or False
\* when the query raised
get_entry_from_db(s, id_, query_ok) ==
    IF query_ok THEN ExistsQuery(s, id_) ELSE FALSE

\* lines 36-39: the existence check
CheckEntry(p) ==
    /\ task[p].pc = "check"
    /\ \/ \* connect_to_db gave up (database/__init__.py 59): line 54-56
          /\ Return(p, "Raised", task[p])
       \/ \E query_ok \in BOOLEAN :
            LET t == [task[p] EXCEPT !.check_error = ~query_ok]
            IN  IF get_entry_from_db(store, t.id, query_ok)
                THEN Return(p, "AlreadyExists", t)
                ELSE /\ task' = [task EXCEPT ![p] = [t EXCEPT !.pc = "embed"]]
                     /\ UNCHANGED <<ret, ing>>
    /\ UNCHANGED <<store, started, del, deletes>>
    /\ UNCHANGED notStore

\* lines 43-50: chunk and embed, then add_pdf_to_db connects (add_pdf.py 23)
EmbedChunks(p) ==
    /\ task[p].pc = "embed"
    /\ \E emb_ok \in BOOLEAN, conn_ok \in BOOLEAN :
         LET d == _get_data_for_db(task[p].id, task[p].content, emb_ok)
             t == [task[p] EXCEPT !.data = d.rows, !.emb_ok = emb_ok]
         IN  IF d.is_none
             THEN Return(p, "EmbeddingFailed", t)
             ELSE IF ~conn_ok
             THEN Return(p, "Raised", t)
             ELSE IF d.rows = <<>>
             THEN Return(p, "Stored", t)
             ELSE /\ task' = [task EXCEPT ![p] = [t EXCEPT !.pc = "insert"]]
                  /\ UNCHANGED <<ret, ing>>
    /\ UNCHANGED <<store, started, del, deletes>>
    /\ UNCHANGED notStore

\* a rollback that undoes every row of the table
RolledBack_All(s, pdf) == {}

\* add_pdf.py 31-32: conn.rollback() after the failed INSERT of pdf undoes
\* that statement alone: the rows committed before stay
RolledBack(s, pdf) == s

\* add_pdf.py 24-34: one pass of the loop: execute and commit the row, or
\* roll the row back when it failed; after the last row lines 35-41 and
\* task.py 52
InsertRow(p) ==
    /\ task[p].pc = "insert"
    /\ \E row_ok \in BOOLEAN :
         LET t0 == task[p]
             pdf == t0.data[t0.i]
             t == [t0 EXCEPT !.i = @ + 1,
                             !.wrote = IF row_ok THEN @ + 1 ELSE @,
                             !.failed = IF row_ok THEN @ ELSE @ \cup {pdf.section}]
         IN  /\ store' = IF row_ok THEN Inserted(store, pdf)
                       ELSE RolledBack(store, pdf)
             /\ IF t.i > Len(t.data)
                THEN Return(p, "Stored", t)
                ELSE /\ task' = [task EXCEPT ![p] = t]
                     /\ UNCHANGED <<ret, ing>>
    /\ UNCHANGED <<started, del, deletes>>
    /\ UNCHANGED notStore

(***************************************************************************)
(* delete_pdf_id (app/database/delete_pdf.py).                             *)
(***************************************************************************)
\* a DELETE that removes the row the SELECT fetched and no other
Deleted_Fetched(s, id_) ==
    IF RowsOf(s, id_) = {} THEN s
    ELSE s \ {CHOOSE r \in RowsOf(s, id_) :
                 \A o \in RowsOf(s, id_) : r.section <= o.section}

\* lines 44-46: DELETE FROM embeddings WHERE rowid = %s
Deleted(s, id_) == s \ RowsOf(s, id_)

\* lines 13-22: SELECT embedding ... WHERE rowid = %s; fetchone
StartDelete(id_) ==
    /\ del.pc = "idle"
    /\ deletes < MaxDeletes
    /\ deletes' = deletes + 1
    /\ \/ /\ RowsOf(store, id_) # {}
          /\ del' = [pc |-> "found", id |-> id_, out |-> "none"]
       \/ \* no row (ValueError), or the query raised: rollback, line 30-34
          /\ del' = [pc |-> "idle", id |-> id_, out |-> "raised"]
    /\ ing' = [b \in Pdfs |->
                 IF Sha256(b) = id_ THEN [ing[b] EXCEPT !.sequential = FALSE]
                 ELSE ing[b]]
    /\ UNCHANGED <<store, task, ret, started>>
    /\ UNCHANGED notStore

\* lines 24-27: DELETE FROM embeddings WHERE rowid = %s; commit
FinishDelete ==
    /\ del.pc = "found"
    /\ \/ /\ store' = Deleted(store, del.id)
          /\ del' = [del EXCEPT !.pc = "idle", !.out = "deleted"]
       \/ \* the DELETE or the commit raised: rollback
          /\ UNCHANGED store
          /\ del' = [del EXCEPT !.pc = "idle", !.out = "raised"]
    /\ UNCHANGED <<task, ret, ing, started, deletes>>
    /\ UNCHANGED notStore

(***************************************************************************)
(* get_similarity (app/database/get_similarity.py).                        *)
(***************************************************************************)
\* the largest max_responses a request gives
MaxResponses == 2

\* the 1 of "1 - (embedding <=> %s)": 1.0 in the units of the distance
Unit == 2

\* JSON_TEXT_FILTER, the one filter key the query builder knows
TEXT_FILTER == "text_filter"

\* embedding <=> query: the cosine distance of pgvector
CosDist(e, q) == IF e >= q THEN e - q ELSE q - e

\* 1 - (embedding <=> query)
Similarity(e, q) == Unit - CosDist(e, q)

\* text LIKE pattern: % stands for any run of characters, _ for any one
RECURSIVE LikeMatch(_, _)
LikeMatch(text, pattern) ==
    IF pattern = <<>> THEN text = <<>>
    ELSE IF Head(pattern) = "%"
    THEN \/ LikeMatch(text, Tail(pattern))
         \/ text # <<>> /\ LikeMatch(Tail(text), pattern)
    ELSE /\ text # <<>>
         /\ Head(pattern) \in {"_", Head(text)}
         /\ LikeMatch(Tail(text), Tail(pattern))

\* text LIKE %s with the placeholder f"%{text_val}%" of line 95: the term
\* goes into the pattern as it is
Like(text, term) == LikeMatch(text, <<"%">> \o term \o <<"%">>)

\* lines 87-107: a filters dict is a sequence of items [k, v]; every item
\* with the text filter key gives one clause, the OR of a LIKE per term (a
\* value is a list of terms here: the "" and None that line 92 skips are
\* not lists)
FilterClauses(filters) ==
    LET keep(item) == item.k = TEXT_FILTER
        items == SelectSeq(filters, keep)
    IN  [i \in 1..Len(items) |-> items[i].v]

\* lines 80-121: the stage-1 query and its placeholders
_get_similarity_query_high_level(query_embedding, limit, n, filters) ==
    [emb |-> query_embedding, limit |-> limit,
     clauses |-> FilterClauses(filters), n |-> n]

\* lines 132-143: the stage-2 query and its placeholders
_get_similarity_query_low_level(query_embedding, similar_pdfs, limit, n) ==
    [emb |-> query_embedding, ids |-> similar_pdfs, limit |-> limit, n |-> n]

\* the server rejects "AND ()" (a clause without a term) and a negative LIMIT
SqlValid1(query) ==
    /\ query.n >= 0
    /\ \A i \in 1..Len(query.clauses) : query.clauses[i] # <<>>

SqlValid2(query) == query.n >= 0

\* WHERE section = 0 AND 1 - (embedding <=> q) >= limit [AND (LIKE OR ...)]
HighLevelRows(s, query) ==
    {r \in s : /\ r.section = 0
               /\ Similarity(r.embedding, query.emb) >= query.limit
               /\ \A i \in 1..Len(query.clauses) :
                     \E j \in 1..Len(query.clauses[i]) :
                         Like(r.text, query.clauses[i][j])}

\* the stage-2 query without its "rowid = ANY(ids)"
LowLevelRows_NoAny(s, query) ==
    {r \in s : /\ r.section > 0
               /\ Similarity(r.embedding, query.emb) >= query.limit}

\* WHERE section > 0 AND rowid = ANY(ids) AND 1 - (embedding <=> q) >= limit
LowLevelRows(s, query) ==
    {r \in s : /\ r.section > 0
               /\ r.rowid \in query.ids
               /\ Similarity(r.embedding, query.emb) >= query.limit}

Min(a, b) == IF a <= b THEN a ELSE b

\* LIMIT n without the ORDER BY: any n of the rows
Nearest_Any(rows, q, n) ==
    {T \in SUBSET rows : Cardinality(T) = Min(n, Cardinality(rows))}

\* ORDER BY embedding <=> q LIMIT n: the n nearest rows, ties broken freely
Nearest(rows, q, n) ==
    {T \in SUBSET rows :
        /\ Cardinality(T) = Min(n, Cardinality(rows))
        /\ \A x \in T, y \in rows \ T :
              CosDist(x.embedding, q) <= CosDist(y.embedding, q)}

\* the rows of T in the order of the ORDER BY
Ordered(T, q) ==
    {f \in [1..Cardinality(T) -> T] :
        /\ \A i, j \in 1..Cardinality(T) : i # j => f[i] # f[j]
        /\ \A i, j \in 1..Cardinality(T) :
              i < j => CosDist(f[i].embedding, q) <= CosDist(f[j].embedding, q)}

\* SELECT rowid, section, text, 1 - (embedding <=> q) AS similarity
Chunk(r, q) == [rowid |-> r.rowid, section |-> r.section, text |-> r.text,
                similarity |-> Similarity(r.embedding, q)]

Queries == 0..EmbMax
Limits == 0..Unit
Responses == (0 - 1)..MaxResponses
FilterChoices ==
    { <<>>,
      <<[k |-> TEXT_FILTER, v |-> <<>>]>>,
      <<[k |-> TEXT_FILTER, v |-> << <<"b">> >>]>>,
      <<[k |-> TEXT_FILTER, v |-> << <<"a", "c">>, <<"c", "b">> >>]>>,
      <<[k |-> TEXT_FILTER, v |-> << <<"_", "b">> >>]>>,
      <<[k |-> "author", v |-> << <<"a">> >>]>> }

\* a call of get_similarity that has not run yet
Call(emb_text, similarity_limit, num_responses, filters) ==
    [pc |-> "called", emb |-> emb_text, limit |-> similarity_limit,
     n |-> num_responses, filters |-> filters,
     ids |-> {}, top |-> {}, result |-> <<>>, failed |-> "none"]

\* an except clause that returns what stage 1 found
QueryFailed_Partial(r, stage) ==
    [r EXCEPT !.pc = "done", !.failed = stage,
              !.result = IF r.top = {} THEN <<>>
                         ELSE <<Chunk(CHOOSE x \in r.top : TRUE, r.emb)>>]

\* lines 58-61: a query (or connect_to_db) raised at the stage named: the
\* connection rolls back and get_similarity raises, returning nothing
QueryFailed(r, stage) == [r EXCEPT !.pc = "error", !.failed = stage]

\* lines 25-43: connect, build and run the stage-1 query
Stage1 ==
    /\ rd.pc = "called"
    /\ LET query == _get_similarity_query_high_level(
                        rd.emb, rd.limit, rd.n, rd.filters)
       IN  \/ \* connect_to_db gave up, or the query raised: lines 58-61
              rd' = QueryFailed(rd, "stage1")
           \/ /\ SqlValid1(query)
              /\ \E top_pdf_ids \in Nearest(HighLevelRows(store, query),
                                           rd.emb, rd.n) :
                    rd' = [rd EXCEPT !.pc = "stage1",
                                     !.top = top_pdf_ids,
                                     !.ids = {r.rowid : r \in top_pdf_ids}]
    /\ UNCHANGED notReader

\* lines 45-56: build and run the stage-2 query, return its rows
Stage2 ==
    /\ rd.pc = "stage1"
    /\ LET query == _get_similarity_query_low_level(
                        rd.emb, rd.ids, rd.limit, rd.n)
       IN  \/ \* the query raised: lines 58-61
              rd' = QueryFailed(rd, "stage2")
           \/ /\ SqlValid2(query)
              /\ \E T \in Nearest(LowLevelRows(store, query), rd.emb, rd.n) :
                 \E similar_chunks \in Ordered(T, rd.emb) :
                    rd' = [rd EXCEPT !.pc = "done",
                              !.result = [i \in 1..Len(similar_chunks) |->
                                             Chunk(similar_chunks[i], rd.emb)]]
    /\ UNCHANGED notReader

Next ==
    \/ \E p \in Procs, b \in Pdfs : StartIngest(p, b)
    \/ \E p \in Procs : CheckEntry(p)
    \/ \E p \in Procs : EmbedChunks(p)
    \/ \E p \in Procs : InsertRow(p)
    \/ \E b \in Pdfs : StartDelete(Sha256(b))
    \/ FinishDelete

Spec == Init /\ [][Next]_vars

(***************************************************************************)
(* One call of get_similarity, for every corpus the ingestion can leave    *)
(* (each row of a document may have failed to insert) and every input,     *)
(* while a delete runs beside the reader.                                  *)
(***************************************************************************)
AllRows ==
    UNION {{[id |-> 1, rowid |-> c.rowid, text |-> c.text,
             embedding |-> c.embedding, section |-> c.section] :
               c \in FullSet(b)} : b \in Pdfs}

InitRetrieve ==
    /\ store \in SUBSET AllRows
    /\ task = [p \in Procs |-> Idle]
    /\ ret = [p \in Procs |-> NoRet]
    /\ ing = [b \in Pdfs |-> [started |-> 0, finished |-> 0, sequential |-> TRUE,
                              first_full |-> FALSE, last |-> "none"]]
    /\ started = MaxIngests
    /\ del = NoDelete
    /\ deletes = MaxDeletes - 1
    /\ rd \in {Call(q, l, n, f) :
                  q \in Queries, l \in Limits, n \in Responses,
                  f \in FilterChoices}
    /\ InitCache
    /\ InitRoute
    /\ InitAdd
    /\ InitParams
    /\ InitConnect
    /\ InitSchema

NextRetrieve ==
    \/ Stage1
    \/ Stage2
    \/ \E b \in Pdfs : StartDelete(Sha256(b))
    \/ FinishDelete

SpecRetrieve == InitRetrieve /\ [][NextRetrieve]_vars

(***************************************************************************)
(* The cache (app/redis_cache.py).  A string is a sequence of characters.  *)
(* An entry of the cache server is a key, a value and the time at which    *)
(* it expires (Never when it was set without ex).                          *)
(***************************************************************************)
\* bound on the clock
MaxTime == 3
\* CACHE_EXPIRTY in app/constants.py (routes.py imports it as CACHE_EXPIRY):
\* 12 hours, here in ticks of 6 hours
CACHE_EXPIRY == 2
Never == 0 - 1

\* redis_client.get(key): the server down raises ConnectionError; else the
\* value of the live entry of key, or nil
Live(c, key, t) == {e \in c : e.key = key /\ (e.expires = Never \/ e.expires > t)}

RedisGet(c, key, t, up) ==
    IF ~up THEN [error |-> "ConnectionError", found |-> FALSE, value |-> <<>>]
    ELSE IF Live(c, key, t) = {}
         THEN [error |-> "", found |-> FALSE, value |-> <<>>]
         ELSE [error |-> "", found |-> TRUE,
               value |-> (CHOOSE e \in Live(c, key, t) : TRUE).value]

\* redis_client.set(key, value[, ex]): the entries afterwards
RedisSet(c, key, value, ex, t) ==
    {e \in c : e.key # key}
        \cup {[key |-> key, value |-> value,
               expires |-> IF ex = 0 THEN Never ELSE t + ex]}

\* get_cache with the ConnectionError let through
get_cache_raises(c, key, t, up) ==
    LET r == RedisGet(c, key, t, up)
    IN  IF r.error # ""
        THEN [raised |-> r.error, status |-> 0, value |-> <<>>]
        ELSE IF r.found /\ r.value # <<>>
             THEN [raised |-> "", status |-> 1, value |-> r.value]
             ELSE [raised |-> "", status |-> 0, value |-> <<>>]

\* get_cache(redis_client, key): (1, value) on a truthy value, (0, None)
\* otherwise and when the server is down; value <<>> with status 0 is None
get_cache(c, key, t, up) ==
    LET r == RedisGet(c, key, t, up)
    IN  IF r.error = "ConnectionError"
        THEN [raised |-> "", status |-> 0, value |-> <<>>]
        ELSE IF r.found /\ r.value # <<>>
             THEN [raised |-> "", status |-> 1, value |-> r.value]
             ELSE [raised |-> "", status |-> 0, value |-> <<>>]

\* set_cache(redis_client, key, value, ex=ex): ex = 0 stands for a falsy
\* ex (None or 0), which sets without expiry; the server down is skipped
set_cache(c, key, value, ex, t, up) ==
    IF ~up
    THEN [raised |-> "", cache |-> c]
    ELSE [raised |-> "", cache |-> RedisSet(c, key, value, ex, t)]

\* the f-string of cache_key_answer_question: a newline and four spaces on
\* either side of the input
CacheStr(input) ==
    <<"\n", " ", " ", " ", " ">> \o input \o <<"\n", " ", " ", " ", " ">>

encoded_str(cache_str) == Sha256(cache_str)

\* def cache_key_answer_question(input), applied to the positional
\* arguments of a call: any number of them but one is a TypeError
cache_key_answer_question(args) ==
    IF Len(args) # 1
    THEN [error |-> "TypeError", key |-> <<>>]
    ELSE [error |-> "", key |-> encoded_str(CacheStr(args[1]))]

(***************************************************************************)
(* get_cache and set_cache called directly, against a server that goes     *)
(* down and comes back.                                                    *)
(***************************************************************************)
Questions == {<<>>, <<"q">>, <<"r">>}
CacheKeys == {cache_key_answer_question(<<q>>).key : q \in Questions \ {<<>>}}
CacheValues == {<<>>, <<"y", "e", "s">>, <<"n", "o">>}

CallGet(key) ==
    /\ cc' = [op |-> "get", key |-> key, up |-> redis_up,
              before |-> cache, after |-> cache, at |-> now,
              res |-> get_cache(cache, key, now, redis_up)]
    /\ UNCHANGED <<now, redis_up, cache>>
    /\ UNCHANGED <<storeVars, rd, routeVars, addVars, schemaVars>>

CallSet(key, value, ex) ==
    LET r == set_cache(cache, key, value, ex, now, redis_up)
    IN  /\ cache' = r.cache
        /\ cc' = [op |-> "set", key |-> key, up |-> redis_up,
                  before |-> cache, after |-> r.cache, at |-> now,
                  res |-> [raised |-> r.raised, status |-> 0, value |-> value]]
        /\ UNCHANGED <<now, redis_up>>
        /\ UNCHANGED <<storeVars, rd, routeVars, addVars, schemaVars>>

\* time passes on the cache server
Tick ==
    /\ now < MaxTime
    /\ now' = now + 1
    /\ UNCHANGED <<redis_up, cache, cc>>
    /\ UNCHANGED <<storeVars, rd, routeVars, addVars, schemaVars>>

\* the cache server goes down; its entries are kept
RedisDown ==
    /\ redis_up
    /\ redis_up' = FALSE
    /\ UNCHANGED <<now, cache, cc>>
    /\ UNCHANGED <<storeVars, rd, routeVars, addVars, schemaVars>>

RedisUp ==
    /\ ~redis_up
    /\ redis_up' = TRUE
    /\ UNCHANGED <<now, cache, cc>>
    /\ UNCHANGED <<storeVars, rd, routeVars, addVars, schemaVars>>

NextCache ==
    \/ \E key \in CacheKeys : CallGet(key)
    \/ \E key \in CacheKeys, value \in CacheValues, ex \in {0, CACHE_EXPIRY} :
           CallSet(key, value, ex)
    \/ Tick
    \/ RedisDown
    \/ RedisUp

SpecCache == Init /\ [][NextCache]_vars

(***************************************************************************)
(* POST /answer_question (app/routes.py) and the answer_question task      *)
(* (app/task.py).  JSON_FILTERS, JSON_TEXT_FILTER and CACHE_EXPIRY, which  *)
(* routes.py imports, are taken as defined.                                *)
(***************************************************************************)
\* bound on the requests received
MaxRequests == 3

\* the filters objects of requests, in the order their keys were given
RequestFilters ==
    { <<[k |-> TEXT_FILTER, v |-> << <<"b">> >>]>>,
      <<[k |-> TEXT_FILTER, v |-> << <<"b">> >>],
        [k |-> "author", v |-> << <<"a">> >>]>>,
      <<[k |-> "author", v |-> << <<"a">> >>],
        [k |-> TEXT_FILTER, v |-> << <<"b">> >>]>> }

\* the bodies of requests: not JSON, JSON the schema rejects, and valid
\* (json: the content type is JSON, request.is_json; parses: the body is
\* a JSON document; valid: it satisfies the schema of lines 288-309)
Bodies ==
    {[json |-> FALSE, parses |-> FALSE, valid |-> FALSE, text |-> <<>>,
      filters |-> <<>>],
     [json |-> TRUE, parses |-> FALSE, valid |-> FALSE, text |-> <<>>,
      filters |-> <<>>],
     [json |-> TRUE, parses |-> TRUE, valid |-> FALSE, text |-> <<>>,
      filters |-> <<>>]}
    \cup {[json |-> TRUE, parses |-> TRUE, valid |-> TRUE, text |-> q,
            filters |-> f] : q \in Questions, f \in RequestFilters}

\* what the language model replies: <<>> stands for None (the call failed)
Replies == {<<>>, <<"y", "e", "s">>, <<"m", "a", "y", "b", "e">>}
\* what get_similarity returns for the corpus of the moment
SourceLists == {<<>>, << <<"a">> >>}

json_dumps(s) == <<"\"">> \o s \o <<"\"">>
json_loads(s) == SubSeq(s, 2, Len(s) - 1)

\* invoke_llm: without content the fixed sentence about the question (here
\* its first word and the question), else the reply, None when the call
\* raised
invoke_llm(question, content, reply) ==
    IF content = <<>>
    THEN <<"T", "h", "e", "r", "e", " ">> \o question
    ELSE reply

\* the task answer_question: the answer, or the exception it raises when
\* the embedding is missing, the retrieval raised or the answer is empty
answer_question(question, emb_ok, db_ok, sources, reply) ==
    LET emb == generate_embedding(<<question>>, emb_ok)
        answer == invoke_llm(question, sources, reply)
    IN  IF Len(emb) = 0 \/ ~db_ok \/ answer = <<>>
        THEN [raised |-> TRUE, answer |-> <<>>]
        ELSE [raised |-> FALSE, answer |-> answer]

NoResp ==
    [status |-> 0, message |-> "", data |-> <<>>, path |-> "none",
     invoked |-> FALSE, text |-> <<>>, filters |-> <<>>,
     key |-> [error |-> "", key |-> <<>>], no |-> 0, at |-> 0,
     answer |-> <<>>]

\* (answer: what the task returned to the handler, <<>> when it was not
\* run or raised)
Respond(c, status, message, data, path, invoked, key, answer) ==
    /\ resp' = [resp EXCEPT ![c] =
                  [status |-> status, message |-> message, data |-> data,
                   path |-> path, invoked |-> invoked,
                   text |-> req[c].text, filters |-> req[c].filters,
                   key |-> key, at |-> now, answer |-> answer,
                   no |-> IF path = "healthy" THEN served + 1 ELSE 0]]
    /\ req' = [req EXCEPT ![c] = Idle]

\* lines 160-183: the body is checked
Receive(c, body) ==
    /\ req[c].pc = "idle"
    /\ requests < MaxRequests
    /\ requests' = requests + 1
    /\ IF body.json /\ ~body.parses
       THEN \* line 166: get_json raises BadRequest, caught at line 258
            /\ resp' = [resp EXCEPT ![c] = [NoResp EXCEPT !.status = 500,
                                               !.message = "error"]]
            /\ req' = req
       ELSE IF ~body.json \/ ~body.valid
       THEN /\ resp' = [resp EXCEPT ![c] = [NoResp EXCEPT !.status = 400,
                                               !.message = "error"]]
            /\ req' = req
       ELSE IF body.text = <<>>
       THEN /\ resp' = [resp EXCEPT ![c] =
                          [NoResp EXCEPT !.status = 404,
                               !.message = "need a valid question query"]]
            /\ req' = req
       ELSE /\ req' = [req EXCEPT ![c] = [pc |-> "health", text |-> body.text,
                                          filters |-> body.filters]]
            /\ resp' = [resp EXCEPT ![c] = NoResp]
    /\ UNCHANGED <<served, cacheVars, storeVars, rd, addVars,
                 schemaVars>>

\* line 186: _redis_healthcheck raises ConnectionError when the ping fails
\* and the handler goes on at line 231
HealthCheck(c) ==
    /\ req[c].pc = "health"
    /\ req' = [req EXCEPT ![c].pc = IF redis_up THEN "lookup" ELSE "degraded"]
    /\ UNCHANGED <<resp, served, requests, cacheVars, storeVars, rd, addVars,
                 schemaVars>>

\* lines 189-229, with the except clauses of lines 255-260: the key, the
\* lookup, and on a miss the task, the three-way unpacking of its result
\* and the set
Lookup(c) ==
    /\ req[c].pc = "lookup"
    /\ served' = served + 1
    /\ LET key == cache_key_answer_question(<<req[c].text, req[c].filters>>)
           got == get_cache(cache, key.key, now, redis_up)
       IN  IF key.error # "" \/ got.raised # ""
           THEN /\ Respond(c, 500, "error", <<>>, "healthy", FALSE, key, <<>>)
                /\ cache' = cache
           ELSE IF got.status = 1
           THEN /\ Respond(c, 200, "Found search in Cache",
                           json_loads(got.value), "healthy", FALSE, key, <<>>)
                /\ cache' = cache
           ELSE \E emb_ok, db_ok \in BOOLEAN, sources \in SourceLists,
                   reply \in Replies :
                  LET a == answer_question(req[c].text, emb_ok, db_ok,
                                           sources, reply)
                  IN  IF a.raised \/ Len(a.answer) # 3
                      THEN /\ Respond(c, 500, "error", <<>>, "healthy",
                                      TRUE, key, a.answer)
                           /\ cache' = cache
                      ELSE /\ Respond(c, 200, "Successfully generated answer",
                                      <<a.answer[1]>>, "healthy", TRUE, key,
                                      a.answer)
                           /\ cache' = set_cache(cache, key.key,
                                           json_dumps(<<a.answer[1]>>),
                                           CACHE_EXPIRY, now, redis_up).cache
    /\ UNCHANGED <<requests, now, redis_up, cc, storeVars, rd, addVars,
                 schemaVars>>

\* lines 231-253: without the cache.  What is raised in here is caught by
\* no clause of the handler and ends the request as a server error
Degraded(c) ==
    /\ req[c].pc = "degraded"
    /\ \E emb_ok, db_ok \in BOOLEAN, sources \in SourceLists,
          reply \in Replies :
          LET a == answer_question(req[c].text, emb_ok, db_ok, sources, reply)
              key == [error |-> "", key |-> <<>>]
          IN  IF a.raised \/ Len(a.answer) # 3
              THEN Respond(c, 500, "unhandled", <<>>, "degraded", TRUE, key,
                           a.answer)
              ELSE Respond(c, 200, "Successfully generated answer",
                           <<a.answer[1]>>, "degraded", TRUE, key, a.answer)
    /\ UNCHANGED <<served, requests, cacheVars, storeVars, rd, addVars,
                 schemaVars>>

NextAnswer ==
    \/ \E c \in Clients, body \in Bodies : Receive(c, body)
    \/ \E c \in Clients : HealthCheck(c)
    \/ \E c \in Clients : Lookup(c)
    \/ \E c \in Clients : Degraded(c)
    \/ Tick
    \/ RedisDown
    \/ RedisUp

SpecAnswer == Init /\ [][NextAnswer]_vars

(***************************************************************************)
(* POST /add_pdf (app/routes.py 83-140).  The web process serves one add   *)
(* request at a time and runs the synchronous fallback itself, as caller   *)
(* Web of emb_and_store; the celery worker runs the queued jobs as caller  *)
(* Worker.  The broker of the task queue is the redis server.              *)
(***************************************************************************)
\* bound on the add requests received
MaxAdds == 2
\* @shared_task(bind=True, max_retries=3, ...) on emb_and_store
max_retries == 3

Web == "w1"
Worker == "w2"

\* the uploads: a document, and a file that is not a pdf
Uploads == {"pdfB", "notes.txt"}

\* lines 97-103: the upload is validated and read
AddReceive(file) ==
    /\ add.pc = "idle"
    /\ adds < MaxAdds
    /\ adds' = adds + 1
    /\ add' = IF file \in Pdfs
              THEN [NoAdd EXCEPT !.pc = "redis_check", !.pdf = file]
              ELSE [NoAdd EXCEPT !.status = 400]
    /\ UNCHANGED <<jobs, workers_up>>
    /\ UNCHANGED <<storeVars, rd, cacheVars, routeVars, schemaVars>>

\* line 108, _redis_healthcheck: the ping; ConnectionError leads to line 119
AddRedisCheck ==
    /\ add.pc = "redis_check"
    /\ add' = [add EXCEPT !.checks = @ + 1,
                          !.redis_ok = redis_up,
                          !.pc = IF redis_up THEN "worker_check" ELSE "sync",
                          !.mode = IF redis_up THEN "none" ELSE "sync"]
    /\ UNCHANGED <<adds, jobs, workers_up>>
    /\ UNCHANGED <<storeVars, rd, cacheVars, routeVars, schemaVars>>

\* celery.control.ping(timeout=3) through the broker with the ping skipped:
\* the mode chosen whatever the workers do
WorkerAnswers_Unchecked(broker, workers) == TRUE

\* line 110, _is_celery_worker_active: a worker answered the ping within
\* the timeout; no answer, or the broker unreachable, is ConnectionError
WorkerAnswers(broker, workers) == broker /\ workers

AddWorkerCheck ==
    /\ add.pc = "worker_check"
    /\ LET ok == WorkerAnswers(redis_up, workers_up)
       IN  add' = [add EXCEPT !.worker_ok = redis_up /\ workers_up,
                              !.pc = IF ok THEN "dispatch" ELSE "sync",
                              !.mode = IF ok THEN "async" ELSE "sync"]
    /\ UNCHANGED <<adds, jobs, workers_up>>
    /\ UNCHANGED <<storeVars, rd, cacheVars, routeVars, schemaVars>>

\* lines 113-123: emb_and_store.delay(pdf) publishes the job and the
\* request is answered; a broker that went down since the check makes
\* delay raise, which the except Exception clause answers with 500
AddDispatch ==
    /\ add.pc = "dispatch"
    /\ IF redis_up
       THEN /\ jobs' = Append(jobs, [pdf |-> add.pdf, state |-> "queued",
                                     attempts |-> 0])
            /\ add' = [add EXCEPT !.pc = "idle", !.ran = TRUE, !.status = 200]
       ELSE /\ jobs' = jobs
            /\ add' = [add EXCEPT !.pc = "idle", !.status = 500]
    /\ UNCHANGED <<adds, workers_up>>
    /\ UNCHANGED <<storeVars, rd, cacheVars, routeVars, schemaVars>>

\* lines 124-128: the except ConnectionError clause calls the task inline
AddSyncCall ==
    /\ add.pc = "sync"
    /\ Called(Web, add.pdf)
    /\ add' = [add EXCEPT !.pc = "sync_run", !.ran = TRUE]
    /\ UNCHANGED <<adds, jobs, workers_up>>
    /\ UNCHANGED <<rd, cacheVars, routeVars, schemaVars>>

\* lines 130-138: the task returned and the request is answered; what the
\* task raised in the except clause is caught by no clause
AddSyncReturn ==
    /\ add.pc = "sync_run"
    /\ task[Web].pc = "idle"
    /\ add' = [add EXCEPT !.pc = "idle",
                          !.status = IF ret[Web].kind = "Raised"
                                     THEN 500 ELSE 200]
    /\ UNCHANGED <<adds, jobs, workers_up>>
    /\ UNCHANGED <<storeVars, rd, cacheVars, routeVars, schemaVars>>

Queued == {i \in 1..Len(jobs) : jobs[i].state = "queued"}
Running == {i \in 1..Len(jobs) : jobs[i].state = "running"}

\* the worker takes the oldest queued job and calls the task
WorkerTake ==
    /\ redis_up /\ workers_up
    /\ Running = {}
    /\ Queued # {}
    /\ LET i == CHOOSE j \in Queued : \A k \in Queued : j <= k
       IN  /\ Called(Worker, jobs[i].pdf)
           /\ jobs' = [jobs EXCEPT ![i].state = "running",
                                   ![i].attempts = @ + 1]
    /\ UNCHANGED <<add, adds, workers_up>>
    /\ UNCHANGED <<rd, cacheVars, routeVars, schemaVars>>

\* the task returned or raised in the worker: nothing in emb_and_store
\* calls self.retry and the decorator names no autoretry_for, so an
\* exception ends the job as failed
WorkerReturn ==
    /\ Running # {}
    /\ task[Worker].pc = "idle"
    /\ LET i == CHOOSE j \in Running : TRUE
       IN  jobs' = [jobs EXCEPT ![i].state =
                       IF ret[Worker].kind = "Raised"
                       THEN "failed" ELSE "succeeded"]
    /\ UNCHANGED <<add, adds, workers_up>>
    /\ UNCHANGED <<storeVars, rd, cacheVars, routeVars, schemaVars>>

WorkersDown ==
    /\ workers_up
    /\ workers_up' = FALSE
    /\ UNCHANGED <<add, adds, jobs>>
    /\ UNCHANGED <<storeVars, rd, cacheVars, routeVars, schemaVars>>

WorkersUp ==
    /\ ~workers_up
    /\ workers_up' = TRUE
    /\ UNCHANGED <<add, adds, jobs>>
    /\ UNCHANGED <<storeVars, rd, cacheVars, routeVars, schemaVars>>

NextAdd ==
    \/ \E file \in Uploads : AddReceive(file)
    \/ AddRedisCheck
    \/ AddWorkerCheck
    \/ AddDispatch
    \/ AddSyncCall
    \/ AddSyncReturn
    \/ WorkerTake
    \/ WorkerReturn
    \/ \E p \in Procs : CheckEntry(p)
    \/ \E p \in Procs : EmbedChunks(p)
    \/ \E p \in Procs : InsertRow(p)
    \/ RedisDown
    \/ RedisUp
    \/ WorkersDown
    \/ WorkersUp

SpecAdd == Init /\ [][NextAdd]_vars

(***************************************************************************)
(* _get_vector_index_params called on its own.                             *)
(***************************************************************************)
\* one computation; the one before it is kept beside it
Compute(n, dim) ==
    /\ LET r == IndexParams(n, dim)
       IN  pr' = [last |-> [n |-> n, dim |-> dim, m |-> r.m,
                            ef_construction |-> r.ef_construction],
                  prev |-> pr.last]
    /\ UNCHANGED <<db, en, cn>>
    /\ UNCHANGED <<storeVars, rd, cacheVars, routeVars, addVars>>

NextParams == \E n \in CorpusSizes, dim \in Dimensions : Compute(n, dim)

SpecParams == Init /\ [][NextParams]_vars

(***************************************************************************)
(* connect_to_db (app/database/__init__.py 15-59).                         *)
(***************************************************************************)
\* the calls of connect_to_db the model follows
MaxConnects == 2

\* retries = 5, line 41
Retries == 5

\* sleep(3), line 58
SleepSeconds == 3

\* a loop that gives up after the first failure
Retry_Once(c) == c.retries > Retries - 1

\* line 42: while retries > 0
Retry(c) == c.retries > 0

\* line 41: the call starts with 5 retries
ConnectCall ==
    /\ cn.pc = "idle"
    /\ cn.calls < MaxConnects
    /\ cn' = [NoConnect EXCEPT !.pc = "loop", !.retries = Retries,
                               !.prev = cn.result, !.calls = cn.calls + 1]
    /\ UNCHANGED <<db, en, pr>>
    /\ UNCHANGED <<storeVars, rd, cacheVars, routeVars, addVars>>

\* lines 42-57: one pass of the loop: psycopg2.connect and con.cursor()
\* return (line 54), or one of them raises and the except clause counts
\* the retry down; a connection whose cursor() raised stays open
Attempt ==
    /\ cn.pc = "loop"
    /\ Retry(cn)
    /\ \E connected \in BOOLEAN, cursor_ok \in BOOLEAN :
         LET c == [cn EXCEPT !.attempts = @ + 1,
                             !.opened = IF connected THEN @ + 1 ELSE @]
         IN  cn' = IF connected /\ cursor_ok
                   THEN [c EXCEPT !.pc = "idle", !.result = "connected"]
                   ELSE [c EXCEPT !.pc = "sleep", !.retries = @ - 1,
                                  !.failures = @ + 1]
    /\ UNCHANGED <<db, en, pr>>
    /\ UNCHANGED <<storeVars, rd, cacheVars, routeVars, addVars>>

\* line 58: sleep(3), then back to the test of line 42
Sleep ==
    /\ cn.pc = "sleep"
    /\ cn' = [cn EXCEPT !.pc = "loop", !.slept = @ + SleepSeconds]
    /\ UNCHANGED <<db, en, pr>>
    /\ UNCHANGED <<storeVars, rd, cacheVars, routeVars, addVars>>

\* line 59: the loop ended without a return
GiveUp ==
    /\ cn.pc = "loop"
    /\ ~Retry(cn)
    /\ cn' = [cn EXCEPT !.pc = "idle", !.result = "raised"]
    /\ UNCHANGED <<db, en, pr>>
    /\ UNCHANGED <<storeVars, rd, cacheVars, routeVars, addVars>>

NextConnect ==
    \/ ConnectCall
    \/ Attempt
    \/ Sleep
    \/ GiveUp

SpecConnect == Init /\ [][NextConnect]_vars

\* connect_to_db is straight-line code in the thread of its caller: a call
\* that can take its next step takes it
SpecConnectLive == SpecConnect /\ WF_vars(NextConnect)

(***************************************************************************)
(* create_table (app/database/create_table.py 22-91), run at the start of  *)
(* the web process.  db is what is committed; en.tx is what the main       *)
(* connection of the call sees, its uncommitted changes included.  The     *)
(* helpers _validate_vector_dimensions, _get_current_index_settings and    *)
(* _remake_vector_search_index each use a connection of their own.         *)
(***************************************************************************)
\* bound on the calls of create_table
MaxEnsures == 2

\* DROP TABLE IF EXISTS embeddings, with the table kept
Dropped_Kept(d) == d

\* DROP TABLE IF EXISTS embeddings: the table goes with columns and indexes
Dropped(d) ==
    [d EXCEPT !.table = FALSE, !.dim = 0, !.cols = {}, !.idx_id = FALSE,
              !.vindex = NoIndex]

\* a helper that creates the table and neither index
Made_TableOnly(d) ==
    IF d.table THEN d
    ELSE [d EXCEPT !.table = TRUE, !.dim = vector_dimension,
                   !.cols = ExpectedColumns]

\* _make_table_helper: CREATE TABLE IF NOT EXISTS, then both CREATE INDEX
\* IF NOT EXISTS of _create_table_index
Made(d) ==
    LET t == IF d.table THEN d
             ELSE [d EXCEPT !.table = TRUE, !.dim = vector_dimension,
                            !.cols = ExpectedColumns]
    IN  [t EXCEPT !.idx_id = TRUE,
                  !.vindex = IF t.vindex = NoIndex THEN ComputedIndex ELSE @]

\* the positions of option k in the printed storage parameters
Positions(opts, k) == {i \in 1..Len(opts) : opts[i].k = k}

\* _extract_index_params with a pattern that finds nothing
_extract_index_params_NoMatch(index_definition) ==
    [m |-> 0 - 1, ef_construction |-> 0 - 1]

\* _extract_index_params: the first m = '..' after WITH ( and the first
\* ef_construction = '..' after it; (None, None), here (-1, -1), when the
\* pattern does not match
_extract_index_params(index_definition) ==
    LET opts == index_definition.opts
        ms == Positions(opts, "m")
        i == CHOOSE x \in ms : \A y \in ms : x <= y
        efs == {j \in Positions(opts, "ef_construction") : j > i}
        j == CHOOSE x \in efs : \A y \in efs : x <= y
    IN  IF ms = {} \/ efs = {}
        THEN [m |-> 0 - 1, ef_construction |-> 0 - 1]
        ELSE [m |-> opts[i].v, ef_construction |-> opts[j].v]

\* the comparison of _validate_vector_index on m alone
NeedsRemake_MOnly(index) ==
    \/ index.method # "hnsw"
    \/ _extract_index_params(index).m # _get_vector_index_params.m \div Scale

\* _validate_vector_index 435-449: no hnsw index of that name, or
\* parameters that differ from the expected ones
NeedsRemake(index) ==
    \/ index.method # "hnsw"
    \/ LET cur == _extract_index_params(index)
           expected == _get_vector_index_params
       IN  \/ cur.m * Scale # expected.m
           \/ cur.ef_construction # expected.ef_construction

\* the connections still open of n that were opened by connect_to_db and
\* never closed by the code: each stays open until the runtime finalises
\* the connection object, which may be at once or not at all
Unclosed(n) == 0..n

\* the except and finally clauses of create_table 78-91: the main connection
\* rolls back and is closed, the call raises; k further connections are
\* left open
Raised(k) ==
    /\ en' = [en EXCEPT !.pc = "idle", !.result = "raised",
                        !.after_ok = FALSE, !.open = @ - 1 + k]
    /\ UNCHANGED <<db, store>>

Raise == Raised(0)

\* lines 45-47: the call connects
EnsureCall ==
    /\ en.pc = "idle"
    /\ en.calls < MaxEnsures
    /\ \/ en' = [NoCall EXCEPT !.pc = "pgvector", !.tx = db, !.pre = db,
                               !.pre_rows = store, !.calls = en.calls + 1,
                               !.after_ok = (en.result = "ok"),
                               !.open = en.open + 1,
                               !.open_before = en.open]
       \/ \* connect_to_db gave up
          en' = [NoCall EXCEPT !.result = "raised", !.pre = db,
                               !.pre_rows = store, !.calls = en.calls + 1,
                               !.open = en.open, !.open_before = en.open]
    /\ UNCHANGED <<db, store, pr, cn>>
    /\ UNCHANGED <<task, ret, ing, started, del, deletes>>
    /\ UNCHANGED <<rd, cacheVars, routeVars, addVars>>

\* _check_pgvector 124-144
CheckPgvector ==
    /\ en.pc = "pgvector"
    /\ \/ /\ en' = [en EXCEPT !.pc = "exists", !.tx.ext = TRUE]
          /\ UNCHANGED <<db, store>>
       \/ Raise
    /\ UNCHANGED <<pr, cn, task, ret, ing, started, del, deletes>>
    /\ UNCHANGED <<rd, cacheVars, routeVars, addVars>>

\* _check_table_exists 94-121 and the branch of line 54
CheckTableExists ==
    /\ en.pc = "exists"
    /\ \/ /\ en' = [en EXCEPT !.pc = IF en.tx.table THEN "dims" ELSE "make"]
          /\ UNCHANGED <<db, store>>
       \/ Raise
    /\ UNCHANGED <<pr, cn, task, ret, ing, started, del, deletes>>
    /\ UNCHANGED <<rd, cacheVars, routeVars, addVars>>

\* a comparison of the dimensions that never finds them equal
_validate_vector_dimensions_Never(d) == FALSE

\* _validate_vector_dimensions 278-284: the typmod of the embedding column
\* against the 1024 of _get_vector_type
_validate_vector_dimensions(d) == d.dim = vector_dimension

\* _validate_vector_dimensions 258-284, on a connection of its own
ValidateDimensions ==
    /\ en.pc = "dims"
    /\ \/ /\ "embedding" \in db.cols
          /\ en' = [en EXCEPT !.pc = IF ~_validate_vector_dimensions(db)
                                     THEN "drop" ELSE "schema"]
          /\ UNCHANGED <<db, store>>
       \/ Raise
    /\ UNCHANGED <<pr, cn, task, ret, ing, started, del, deletes>>
    /\ UNCHANGED <<rd, cacheVars, routeVars, addVars>>

\* _drop_embedding_table 306-319: DROP TABLE and conn.commit(), which
\* commits what the main connection did so far
DropTable ==
    /\ en.pc = "drop"
    /\ \/ /\ db' = Dropped(en.tx)
          /\ store' = IF Dropped(en.tx).table THEN store ELSE {}
          /\ en' = [en EXCEPT !.pc = "make", !.tx = Dropped(en.tx),
                              !.table_drops = @ + 1]
       \/ Raise
    /\ UNCHANGED <<pr, cn, task, ret, ing, started, del, deletes>>
    /\ UNCHANGED <<rd, cacheVars, routeVars, addVars>>

\* _make_table_helper 147-167, in the transaction of the main connection
MakeTable ==
    /\ en.pc = "make"
    /\ \/ /\ _get_vector_index_params.m % Scale = 0
          /\ en' = [en EXCEPT !.pc = "commit", !.tx = Made(en.tx)]
          /\ UNCHANGED <<db, store>>
       \/ Raise
    /\ UNCHANGED <<pr, cn, task, ret, ing, started, del, deletes>>
    /\ UNCHANGED <<rd, cacheVars, routeVars, addVars>>

\* lines 217-219: the expected columns the table lacks, by name
missing_columns(existing_columns) == ExpectedColumns \ existing_columns

\* lines 220-221: the columns of the table that are not expected
extra_columns(existing_columns) == existing_columns \ ExpectedColumns

\* set_columns 324-374: ALTER TABLE ADD COLUMN for each column to add
set_columns(cols, columns_to_add) == cols \cup columns_to_add

\* remove_columns that drops nothing
remove_columns_Kept(cols, columns_to_rm) == cols

\* remove_columns 377-429: ALTER TABLE DROP COLUMN for each column to drop
remove_columns(cols, columns_to_rm) == cols \ columns_to_rm

\* _validate_table_schema 195-233: the missing columns are added and the
\* extra ones dropped, by name, in the transaction of the main connection,
\* which holds the lock of ALTER TABLE from then on
ValidateSchema ==
    /\ en.pc = "schema"
    /\ \/ /\ LET existing_columns == en.tx.cols
                 added == set_columns(existing_columns,
                                      missing_columns(existing_columns))
                 cols == remove_columns(added,
                                        extra_columns(existing_columns))
             IN  en' = [en EXCEPT !.pc = "index", !.tx.cols = cols,
                                  !.locked = (cols # existing_columns)]
          /\ UNCHANGED <<db, store>>
       \/ Raise
    /\ UNCHANGED <<pr, cn, task, ret, ing, started, del, deletes>>
    /\ UNCHANGED <<rd, cacheVars, routeVars, addVars>>

\* _get_current_index_settings 454-469 connects, and closes the connection
\* only when it found no hnsw index of that name: line 465 returns before
\* the close of lines 467-468
SettingsUnclosed(index) == IF index.method = "hnsw" THEN 1 ELSE 0

\* _validate_vector_index 432-451: the index is left alone, or dropped and
\* created again and committed on a connection of its own
\* (_remake_vector_search_index 489-503), which waits for the lock of the
\* main connection when that altered the table. A statement that raises in
\* _get_current_index_settings or in _remake_vector_search_index leaves
\* the connection of that function unclosed
ValidateIndex ==
    /\ en.pc = "index"
    /\ \/ /\ ~NeedsRemake(db.vindex)
          /\ \E k \in Unclosed(SettingsUnclosed(db.vindex)) :
                en' = [en EXCEPT !.pc = "commit", !.idx_done = TRUE,
                                 !.idx_before = db.vindex, !.open = @ + k]
          /\ UNCHANGED <<db, store>>
       \/ /\ NeedsRemake(db.vindex)
          /\ en.locked
          /\ \E k \in Unclosed(SettingsUnclosed(db.vindex)) :
                en' = [en EXCEPT !.pc = "blocked", !.idx_before = db.vindex,
                                 !.open = @ + k + 1]
          /\ UNCHANGED <<db, store>>
       \/ /\ NeedsRemake(db.vindex)
          /\ ~en.locked
          /\ _get_vector_index_params.m % Scale = 0
          /\ db' = [db EXCEPT !.vindex = ComputedIndex]
          /\ \E k \in Unclosed(SettingsUnclosed(db.vindex)) :
                en' = [en EXCEPT !.pc = "commit", !.idx_done = TRUE,
                                 !.idx_before = db.vindex,
                                 !.tx.vindex = ComputedIndex,
                                 !.index_remakes = @ + 1, !.open = @ + k]
          /\ UNCHANGED store
       \/ \E k \in Unclosed(SettingsUnclosed(db.vindex) + 1) : Raised(k)
    /\ UNCHANGED <<pr, cn, task, ret, ing, started, del, deletes>>
    /\ UNCHANGED <<rd, cacheVars, routeVars, addVars>>

\* lines 76-77: conn.commit()
Commit ==
    /\ en.pc = "commit"
    /\ \/ /\ db' = en.tx
          /\ en' = [en EXCEPT !.pc = "idle", !.result = "ok", !.open = @ - 1]
          /\ UNCHANGED store
       \/ Raise
    /\ UNCHANGED <<pr, cn, task, ret, ing, started, del, deletes>>
    /\ UNCHANGED <<rd, cacheVars, routeVars, addVars>>

\* the tables earlier versions of the program left behind
OldIndexes ==
    {NoIndex, ComputedIndex, Hnsw(16, 64), Hnsw(64, 200),
     [method |-> "hnsw", opts |-> <<>>]}

DbStates ==
    {[ext |-> e, table |-> FALSE, dim |-> 0, cols |-> {}, idx_id |-> FALSE,
      vindex |-> NoIndex] : e \in BOOLEAN}
    \cup {[ext |-> TRUE, table |-> TRUE, dim |-> d, cols |-> c,
           idx_id |-> i, vindex |-> v] :
            d \in {384, vector_dimension},
            c \in {ExpectedColumns, ExpectedColumns \ {"section"},
                   ExpectedColumns \cup {"title"},
                   (ExpectedColumns \ {"section"}) \cup {"title"}},
            i \in BOOLEAN, v \in OldIndexes}

\* the rows as a table of the columns cols holds them: a column the table
\* lacks has no value
RowsIn(rows, cols) ==
    {[r EXCEPT !.section = IF "section" \in cols THEN @ ELSE None] :
        r \in rows}

InitEnsure ==
    /\ db \in DbStates
    /\ store \in IF db.table
                 THEN {{}, RowsIn(RowsOf(AllRows, Sha256("pdfA")), db.cols)}
                 ELSE {{}}
    /\ en = [NoCall EXCEPT !.tx = db, !.pre = db]
    /\ task = [p \in Procs |-> Idle]
    /\ ret = [p \in Procs |-> NoRet]
    /\ ing = [b \in Pdfs |-> [started |-> 0, finished |-> 0,
                              sequential |-> TRUE, first_full |-> FALSE,
                              last |-> "none"]]
    /\ started = 0
    /\ del = NoDelete
    /\ deletes = 0
    /\ rd = Idle
    /\ InitCache
    /\ InitRoute
    /\ InitAdd
    /\ InitParams
    /\ InitConnect

NextEnsure ==
    \/ EnsureCall
    \/ CheckPgvector
    \/ CheckTableExists
    \/ ValidateDimensions
    \/ DropTable
    \/ MakeTable
    \/ ValidateSchema
    \/ ValidateIndex
    \/ Commit

SpecEnsure == InitEnsure /\ [][NextEnsure]_vars

\* create_table runs in one thread at application start (app/__init__.py):
\* a call that can take its next step takes it
SpecEnsureLive == SpecEnsure /\ WF_vars(NextEnsure)

(***************************************************************************)
(* Ingestion: what the claims speak of.                                    *)
(***************************************************************************)
\* a row without its surrogate id
Content(r) == [rowid |-> r.rowid, text |-> r.text,
               embedding |-> r.embedding, section |-> r.section]

\* the store holds the rows of b exactly once each
OneSet(s, b) ==
    /\ {Content(r) : r \in RowsOf(s, Sha256(b))} = FullSet(b)
    /\ Cardinality(RowsOf(s, Sha256(b))) = Cardinality(FullSet(b))

Sections(s, b) == {r.section : r \in RowsOf(s, Sha256(b))}

\* C1: b was ingested twice, one call after the other (no overlap with any
\* other call or delete on b), the first call having stored the full set
\* and the second having returned: then the second call returned
\* AlreadyExists and the store holds exactly one set of rows of b.
C1_SecondIngestIsNoOp ==
    \A b \in Pdfs :
        ( /\ ing[b].sequential /\ ing[b].first_full
          /\ ing[b].started = 2 /\ ing[b].finished = 2
          /\ ing[b].last # "Raised" )
        => (ing[b].last = "AlreadyExists" /\ OneSet(store, b))

\* C2: what a reader sees of a document is all of its sections or none.
C2_AllSectionsOrNone ==
    \A b \in Pdfs :
        \/ RowsOf(store, Sha256(b)) = {}
        \/ Sections(store, b) = {r.section : r \in FullSet(b)}

\* C3: an ingestion one of whose row inserts failed leaves no row of the
\* document (it being the only ingestion of the document so far).
C3_FailedInsertLeavesNoRow ==
    \A p \in Procs :
        ( /\ ret[p].kind # "none" /\ ret[p].failed # {}
          /\ ing[ret[p].pdf].started = 1 )
        => RowsOf(store, Sha256(ret[p].pdf)) = {}

\* C4: a document that has any row has exactly one section-0 row, holding
\* the full text.
C4_OneSectionZero ==
    \A b \in Pdfs :
        RowsOf(store, Sha256(b)) # {}
        => ( /\ Cardinality({r \in RowsOf(store, Sha256(b)) : r.section = 0}) = 1
             /\ \A r \in RowsOf(store, Sha256(b)) :
                    r.section = 0 => r.text = PdfText(b) )

\* C5: a call whose embedding came back empty, and that returned, returned
\* EmbeddingFailed and wrote no row.
C5_EmbeddingFailedReported ==
    \A p \in Procs :
        (ret[p].kind \notin {"none", "Raised"} /\ ~ret[p].emb_ok)
        => (ret[p].kind = "EmbeddingFailed" /\ ret[p].wrote = 0)

(***************************************************************************)
(* Retrieval: what the claims speak of.                                    *)
(***************************************************************************)
\* the row passes every filter of the request that the query builder knows
PassesFilters(r, filters) ==
    \A i \in 1..Len(filters) :
        filters[i].k = TEXT_FILTER
        => \E j \in 1..Len(filters[i].v) : Like(r.text, filters[i].v[j])

\* C6: every chunk get_similarity returns belongs to a document of the
\* stage-1 set and has a score of at least similarity_limit; the stage-1 set
\* is made of at most num_responses section-0 rows that passed the threshold
\* and the filters; an empty stage-1 set gives an empty result.
C6_StagedRetrieval ==
    rd.pc = "done"
    => /\ \A i \in 1..Len(rd.result) :
             /\ rd.result[i].rowid \in rd.ids
             /\ rd.result[i].similarity >= rd.limit
       /\ rd.ids = {r.rowid : r \in rd.top}
       /\ Cardinality(rd.top) <= rd.n
       /\ \A r \in rd.top :
             /\ r.section = 0
             /\ Similarity(r.embedding, rd.emb) >= rd.limit
             /\ PassesFilters(r, rd.filters)
       /\ (rd.ids = {} => rd.result = <<>>)

\* a call returned chunks while the store held a chunk that scores above the
\* limit but whose document is not in the stage-1 set
C6_Witness ==
    /\ rd.pc = "done"
    /\ rd.result # <<>>
    /\ \E r \in store :
          /\ r.section > 0
          /\ Similarity(r.embedding, rd.emb) >= rd.limit
          /\ r.rowid \notin rd.ids

(***************************************************************************)
(* The cache: what the claims speak of.                                    *)
(***************************************************************************)
\* two filters objects with the same keys and values, in whatever order
SameContents(f, g) == {f[i] : i \in DOMAIN f} = {g[i] : i \in DOMAIN g}

\* the answers given past a passed health check
Healthy(c) == resp[c].path = "healthy"

\* C7: with the cache healthy, a request with the text and filters of an
\* earlier request that no failure of retrieval or generation ended is
\* answered from the cache, without retrieval or generation, when it comes
\* within CACHE_EXPIRY of the earlier one, and is a miss that runs
\* retrieval and generation when it comes later.
C7_CacheAside ==
    \A c, d \in Clients :
        ( /\ Healthy(c) /\ Healthy(d)
          /\ resp[d].no < resp[c].no
          /\ ~(resp[d].invoked /\ resp[d].status = 500)
          /\ resp[c].text = resp[d].text
          /\ resp[c].filters = resp[d].filters )
        => IF resp[c].at - resp[d].at < CACHE_EXPIRY
           THEN resp[c].message = "Found search in Cache" /\ ~resp[c].invoked
           ELSE resp[c].invoked

\* C8: the cache is keyed by the question together with the filters: a
\* request past the health check gets a key, and two such requests have
\* the same key only if their questions are equal and their filters have
\* the same contents.
C8_KeyedByQuestionAndFilters ==
    \A c \in Clients :
        Healthy(c)
        => /\ resp[c].key.error = ""
           /\ \A d \in Clients :
                  (Healthy(d) /\ resp[d].key.key = resp[c].key.key)
                  => /\ resp[d].text = resp[c].text
                     /\ SameContents(resp[d].filters, resp[c].filters)

\* C9: the key is a function of the question and the contents of the
\* filters: a request past the health check gets a key, and two such
\* requests with equal questions and filters of the same contents get the
\* same key, in whatever order the filter keys were given.
C9_KeyIgnoresFilterOrder ==
    \A c \in Clients :
        Healthy(c)
        => /\ resp[c].key.error # "TypeError"
           /\ \A d \in Clients :
                  ( /\ Healthy(d)
                    /\ resp[d].text = resp[c].text
                    /\ SameContents(resp[d].filters, resp[c].filters) )
                  => resp[d].key = resp[c].key

\* C10: the cache is best-effort.  A get_cache against a server that is
\* down raises nothing and is a miss, (0, None); a set_cache against a
\* server that is down raises nothing and leaves the entries as they were;
\* and no call of either raises, so that no caller fails on it.
C10_CacheBestEffort ==
    /\ (cc.op = "get" /\ ~cc.up)
          => (cc.res.raised = "" /\ cc.res.status = 0 /\ cc.res.value = <<>>)
    /\ (cc.op = "set" /\ ~cc.up)
          => (cc.res.raised = "" /\ cc.after = cc.before)
    /\ (cc.op # "none") => cc.res.raised = ""

\* a get_cache against a server that is down, of a key whose entry is live
C10_Witness ==
    /\ cc.op = "get"
    /\ ~cc.up
    /\ \E e \in Live(cc.before, cc.key, cc.at) : e.value # <<>>

\* C11: a request whose health check failed derives no key and makes no
\* lookup and no store, runs retrieval and generation, and when these
\* produced an answer it is answered 200 with that answer.
C11_DegradedAnswers ==
    \A c \in Clients :
        resp[c].path = "degraded"
        => /\ resp[c].key = [error |-> "", key |-> <<>>]
           /\ resp[c].invoked
           /\ resp[c].answer # <<>>
                => (resp[c].status = 200 /\ resp[c].data = resp[c].answer)

(***************************************************************************)
(* The add route: what the claims speak of.                                *)
(***************************************************************************)
\* C12: on an add request the health check is evaluated once, and before
\* the task is queued or run: the request takes the asynchronous path only
\* when the ping of redis succeeded and a worker answered, the synchronous
\* path in the request only when one of the two did not, and nothing of
\* the request is queued or run before the path is chosen.
C12_HealthCheckDecides ==
    /\ add.mode = "async"
          => (add.checks = 1 /\ add.redis_ok /\ add.worker_ok)
    /\ add.mode = "sync"
          => (add.checks = 1 /\ ~(add.redis_ok /\ add.worker_ok))
    /\ add.mode = "none" => ~add.ran
    /\ add.pc = "sync_run" => add.mode = "sync"
    /\ add.pc = "dispatch" => add.mode = "async"
    /\ (add.ran /\ add.mode = "async") => Len(jobs) > 0

\* an add request answered 200 after running the task in the request,
\* redis answering and no worker answering, the rows of the document stored
C12_Witness ==
    /\ add.mode = "sync"
    /\ add.redis_ok /\ ~add.worker_ok
    /\ add.status = 200
    /\ OneSet(store, add.pdf)

\* C13: no request fails only because redis, the broker or the workers are
\* down, whenever the outage begins: an add request with a valid pdf whose
\* own run of the task met no database failure is answered 200, and an
\* answer request whose task produced an answer is answered 200 with it.
C13_NoFailureFromInfra ==
    /\ ( /\ add.status # 0
          /\ add.pdf \in Pdfs
          /\ ~(add.mode = "sync" /\ ret[Web].kind = "Raised") )
          => add.status = 200
    /\ \A c \in Clients :
          (resp[c].path # "none" /\ resp[c].answer # <<>>)
          => (resp[c].status = 200 /\ resp[c].data = resp[c].answer)

\* C14: a queued job that failed is run again until it has been run
\* 1 + max_retries times, and never more often than that.
C14_FailedJobRetried ==
    \A i \in 1..Len(jobs) :
        /\ jobs[i].attempts <= 1 + max_retries
        /\ jobs[i].state = "failed" => jobs[i].attempts = 1 + max_retries

LeastMultiple(a, b) == CHOOSE k \in (0 - 1)..10 : k * b >= a /\ (k - 1) * b < a

\* C20: the parameters are those of the tuning formula, with
\* dimensionality = ln(n) * (1 + dim/500), m = min(64, 2 * (dimensionality
\* - 1)) and ef_construction = ceil((2 * m + dim/10) / 100) * 100; a corpus
\* of 5,000,000 and dimension 1024 give m = 64 and ef_construction = 300.
C20_TuningFormula ==
    pr.last.n # 0
    => LET n == pr.last.n
           dim == pr.last.dim
           dimensionality == (LnMilli(n) * (500 + dim))
           twice == 2 * (dimensionality - Scale)
           m == IF 64 * Scale < twice THEN 64 * Scale ELSE twice
           ef == LeastMultiple(2 * m + (dim * Scale) \div 10, 100 * Scale)
                     * 100
       IN  /\ pr.last.m = m
           /\ pr.last.ef_construction = ef
           /\ (n = 5000000 /\ dim = 1024)
                 => (pr.last.m = 64 * Scale /\ pr.last.ef_construction = 300)

\* the parameters of the example of the formula have been computed
C20_Witness ==
    /\ pr.last.n = 5000000 /\ pr.last.dim = 1024
    /\ pr.last.m = 64 * Scale
    /\ pr.last.ef_construction = 300

(***************************************************************************)
(* create_table: what the claims speak of.                                 *)
(***************************************************************************)
\* a call of create_table has returned without raising
Succeeded == en.pc = "idle" /\ en.result = "ok"

\* C15: a call that follows a successful call and succeeds changes
\* nothing: the schema and the rows are those before the call, no table
\* was dropped and the vector index was not dropped or created again.
C15_EnsureIdempotent ==
    (Succeeded /\ en.after_ok)
    => /\ db = en.pre
       /\ store = en.pre_rows
       /\ en.table_drops = 0
       /\ en.index_remakes = 0

\* a second successful call on a table that holds rows
C15_Witness ==
    /\ Succeeded /\ en.after_ok
    /\ en.calls = 2
    /\ store # {}

\* C16: a successful call on a table whose embedding column has another
\* dimension than the expected one leaves a table of the expected
\* dimension and columns, both indexes created anew, and no row.
C16_DimensionMigration ==
    (Succeeded /\ en.pre.table /\ en.pre.dim # vector_dimension)
    => /\ db.table
       /\ db.dim = vector_dimension
       /\ db.cols = ExpectedColumns
       /\ db.idx_id
       /\ db.vindex = ComputedIndex
       /\ en.table_drops = 1
       /\ store = {}

\* a successful call on a table of 384 dimensions that held rows
C16_Witness ==
    /\ Succeeded
    /\ en.pre.table /\ en.pre.dim = 384
    /\ en.pre_rows # {}
    /\ store = {}

\* C17: a call that raised left the database as it was before the call:
\* the same extension, table, columns, indexes and rows.
C17_FailureLeavesPreState ==
    (en.pc = "idle" /\ en.result = "raised")
    => (db = en.pre /\ store = en.pre_rows)

\* C18: once the validation of the vector index has returned, the index
\* is the hnsw index with the computed m and ef_construction; it was
\* dropped and created again when it was missing or had other parameters,
\* and left untouched otherwise.
C18_IndexValidation ==
    en.idx_done
    => /\ db.vindex = ComputedIndex
       /\ en.index_remakes = IF en.idx_before = ComputedIndex THEN 0 ELSE 1

\* the validation has rebuilt an index that had the computed m and another
\* ef_construction
C18_Witness ==
    /\ en.idx_done
    /\ en.idx_before = Hnsw(64, 200)
    /\ en.index_remakes = 1
    /\ db.vindex = ComputedIndex

\* C21: when a call of create_table has finished, by returning or by
\* raising, as many store connections are open as before the call: every
\* connection the call opened has been closed.
C21_ConnectionsReleased ==
    (en.pc = "idle" /\ en.calls > 0) => en.open = en.open_before

\* C22: the outcome of a call of the task reflects the store: Stored is
\* returned only when every row of the returned data was written,
\* AlreadyExists only when the existence query ran and found the id, and
\* EmbeddingFailed only when the embedding failed.
C22_OutcomeReflectsStore ==
    \A p \in Procs :
        /\ ret[p].kind = "Stored"
             => (ret[p].wrote = Len(ret[p].data) /\ ret[p].failed = {})
        /\ ret[p].kind = "AlreadyExists" => ~ret[p].check_error
        /\ ret[p].kind = "EmbeddingFailed" => ~ret[p].emb_ok

\* C23: no answer request ends with an exception that leaves the handler:
\* every failure, on the healthy and on the degraded path, is answered by
\* one of the handler's own error responses.
C23_FailuresAreResponses ==
    \A c \in Clients : resp[c].message # "unhandled"

\* both callers ran the task on b, each passed the existence check with a
\* query that ran, each wrote every row of its data, and nothing was
\* deleted
BothStored(b) ==
    /\ deletes = 0
    /\ del.pc = "idle"
    /\ \A p \in Procs :
          /\ ret[p].kind = "Stored"
          /\ ret[p].pdf = b
          /\ ~ret[p].check_error
          /\ ret[p].wrote > 0
          /\ ret[p].wrote = Len(ret[p].data)

\* C24: two submissions of the same bytes are not serialized: when both
\* passed the existence check and both inserted, the store holds two rows
\* for every section of the document.
C24_DuplicateRace ==
    \A b \in Pdfs :
        BothStored(b)
        => \A x \in FullSet(b) :
             Cardinality({r \in store : Content(r) = x}) = 2

\* two overlapping calls on pdfB have both returned Stored and the store
\* holds two section-0 rows of pdfB
C24_Witness ==
    /\ BothStored("pdfB")
    /\ ~ing["pdfB"].sequential
    /\ Cardinality({r \in RowsOf(store, Sha256("pdfB")) : r.section = 0}) = 2

\* C25: every call of create_table ends, in a commit or in an error,
\* whatever the table it starts from; the rebuild of the index on the
\* second connection does not wait forever for the main connection.
C25_EnsureTerminates == (en.pc # "idle") ~> (en.pc = "idle")

\* the chunks of s that qualify for the result of the call r: section > 0,
\* of a document of the stage-1 set, with a score of at least the limit
Qualifying(s, r) ==
    {x \in s : /\ x.section > 0
               /\ x.rowid \in r.ids
               /\ Unit - CosDist(x.embedding, r.emb) >= r.limit}

\* the result of the call r is made of qualifying chunks of s only, in the
\* order of their distance, at most r.n of them, and the nearest ones
NearestChunks(s, r) ==
    LET Q == Qualifying(s, r)
        n == Len(r.result)
        dist(i) == Unit - r.result[i].similarity
    IN  /\ \A i \in 1..n : r.result[i].section > 0
        /\ \A i, j \in 1..n : i < j => dist(i) <= dist(j)
        /\ n <= r.n
        /\ n = Min(r.n, Cardinality(Q))
        /\ \A i \in 1..n : \E x \in Q : r.result[i] = Chunk(x, r.emb)
        /\ \A x \in Q :
              \/ \E i \in 1..n : r.result[i] = Chunk(x, r.emb)
              \/ \A i \in 1..n : dist(i) <= CosDist(x.embedding, r.emb)

Contains(text, term) ==
    \E i \in 1..(Len(text) + 1) :
        /\ i + Len(term) - 1 <= Len(text)
        /\ SubSeq(text, i, i + Len(term) - 1) = term

\* the section-0 rows of s that qualify for stage 1 of the call r: a score
\* of at least the limit and, for every text filter given, one of its terms
\* contained in the text
QualifyingDocuments(s, r) ==
    {x \in s : /\ x.section = 0
               /\ Unit - CosDist(x.embedding, r.emb) >= r.limit
               /\ \A i \in 1..Len(r.filters) :
                     r.filters[i].k = TEXT_FILTER
                     => \E j \in 1..Len(r.filters[i].v) :
                           Contains(x.text, r.filters[i].v[j])}

\* the stage-1 set of the call r is the ids of the at most r.n nearest
\* qualifying section-0 rows of s
NearestDocuments(s, r) ==
    LET Q == QualifyingDocuments(s, r)
    IN  \E T \in SUBSET Q :
           /\ Cardinality(T) = Min(r.n, Cardinality(Q))
           /\ \A x \in T, y \in Q \ T :
                 CosDist(x.embedding, r.emb) <= CosDist(y.embedding, r.emb)
           /\ r.ids = {x.rowid : x \in T}

\* C27: the stage-1 set is exactly the document ids of the at most
\* num_responses nearest section-0 rows whose score is at least the limit
\* and whose text contains, for every filter given, at least one of its
\* terms as a substring; without filters only the limit and the cap apply.
C27_StageOneSet ==
    [][(rd.pc = "called" /\ rd'.pc = "stage1") => NearestDocuments(store, rd')]_vars

\* C28: a call that found the table with the expected dimension has
\* deleted no row and changed no value of a row, at any point of the call
\* and however it ended, whatever columns it added or dropped and whether
\* or not it rebuilt the vector index.
C28_RowsUntouched ==
    (en.calls > 0 /\ en.pre.table /\ en.pre.dim = vector_dimension)
    => store = en.pre_rows

\* a successful call dropped the extra column of a table that holds rows
C28_Witness ==
    /\ Succeeded
    /\ en.pre.table /\ en.pre.dim = vector_dimension
    /\ "title" \in en.pre.cols
    /\ db.cols = ExpectedColumns
    /\ store # {}

\* the step in which the handler answers the request of c past the passed
\* health check
Answers(c) == req[c].pc = "lookup" /\ req'[c].pc = "idle"

C30_ColumnsAsExpected ==
    (Succeeded /\ en.pre.table /\ en.pre.dim = vector_dimension)
    => db.cols = ExpectedColumns

\* a successful call on a table that lacked the section column and had a
\* column outside the expected schema
C30_Witness ==
    /\ Succeeded
    /\ en.pre.table /\ en.pre.dim = vector_dimension
    /\ "section" \notin en.pre.cols
    /\ "title" \in en.pre.cols
    /\ db.cols = ExpectedColumns

\* C31: a call of get_similarity in which a query failed, at stage 1 or
\* at stage 2, has raised and returned nothing: never the rows of stage 1
\* alone.
C31_NoPartialResult ==
    (rd.pc # "idle" /\ rd.failed # "none")
    => (rd.pc = "error" /\ rd.result = <<>>)

\* the stage-2 query failed after stage 1 had found a document
C31_Witness ==
    /\ rd.pc = "error"
    /\ rd.failed = "stage2"
    /\ rd.top # {}

\* b was ingested by one call, which wrote every row of its data, and
\* nothing was deleted
IngestedOnce(b) ==
    /\ ing[b].started = 1 /\ ing[b].finished = 1
    /\ ing[b].first_full
    /\ deletes = 0 /\ del.pc = "idle"

\* C32: a successful ingestion of a text that splits into n sub-chunks
\* has written n + 1 rows of the document, one per section 0..n: section
\* 0 with the full text, section i with the i-th sub-chunk, each with the
\* embedding of its own text.
C32_SectionsOfDocument ==
    \A b \in Pdfs :
        IngestedOnce(b)
        => LET rows == RowsOf(store, Sha256(b))
               chunks == split_text(PdfText(b))
               n == Len(chunks)
           IN  /\ Cardinality(rows) = n + 1
               /\ \A i \in 0..n :
                     \E r \in rows :
                        /\ r.section = i
                        /\ r.text = IF i = 0 THEN PdfText(b) ELSE chunks[i]
                        /\ r.embedding = Encode(r.text)

\* pdfA, whose text splits into two sub-chunks, was ingested once and has
\* three rows
C32_Witness ==
    /\ IngestedOnce("pdfA")
    /\ Len(split_text(PdfText("pdfA"))) = 2
    /\ Cardinality(RowsOf(store, Sha256("pdfA"))) = 3

\* the request of c was answered by the checks of the body, lines 160-179
Rejected(c) == resp[c].status # 0 /\ resp[c].path = "none"

\* C33: an answer request whose body fails the checks (not JSON, not of
\* the schema, the question empty) is answered with a client error and
\* has run no retrieval or generation and derived no cache key.
C33_InvalidIsClientError ==
    \A c \in Clients :
        Rejected(c)
        => /\ resp[c].status \in 400..499
           /\ ~resp[c].invoked
           /\ resp[c].key = NoResp.key

\* the document the step of caller p works on, when p takes a step
StepsOn(p) == IF task[p].pc = "idle" THEN task'[p].pdf ELSE task[p].pdf

\* the rows of its data the call did not fail to insert
Written(r) == {r.data[i] : i \in {j \in 1..Len(r.data) :
                                     r.data[j].section \notin r.failed}}

\* C34: ingestions of different documents are independent: no step of a
\* call on one document adds, removes or changes a row of another
\* document, and when the only call on a document returns, the rows of
\* that document are the ones this call inserted, whatever calls on other
\* documents did meanwhile.
C34_DocumentsIndependent ==
    [][\A p \in Procs :
          task'[p] # task[p]
          => /\ \A b \in Pdfs \ {StepsOn(p)} :
                   RowsOf(store', Sha256(b)) = RowsOf(store, Sha256(b))
             /\ ( /\ task[p].pc # "idle" /\ task'[p].pc = "idle"
                  /\ ret'[p].kind = "Stored"
                  /\ ing[StepsOn(p)].started = 1
                  /\ deletes = 0 /\ del.pc = "idle" )
                => {Content(r) : r \in RowsOf(store', Sha256(StepsOn(p)))}
                      = Written(ret'[p])
      ]_vars

\* two calls on different documents are both in the middle of their
\* inserts, each with a row written, one of them with a failed insert
C34_Witness ==
    \E p, q \in Procs :
        /\ task[p].pc = "insert" /\ task[q].pc = "insert"
        /\ task[p].pdf # task[q].pdf
        /\ task[p].wrote > 0 /\ task[q].wrote > 0
        /\ task[p].failed # {}

\* C35: a call of create_table that found no table never compares
\* dimensions, diffs the schema or validates the index, and when it
\* succeeded the table exists with exactly the expected columns, the
\* embedding column of the model's dimension, the index on the document
\* id and the hnsw index with the computed m and ef_construction.
C35_CreatedFromScratch ==
    (en.calls > 0 /\ ~en.pre.table)
    => /\ en.pc \notin {"dims", "drop", "schema", "index", "blocked"}
       /\ ~en.idx_done /\ en.index_remakes = 0
       /\ en.table_drops = 0 /\ ~en.locked
       /\ Succeeded
            => /\ db.table
               /\ db.cols = ExpectedColumns
               /\ db.dim = vector_dimension
               /\ db.idx_id
               /\ db.vindex = ComputedIndex

\* a successful call on a database without the table and without the
\* extension
C35_Witness ==
    /\ Succeeded
    /\ ~en.pre.table /\ ~en.pre.ext
    /\ db = Ensured

\* C36: a delete_pdf_id call that returns has removed every row of its id
\* and no other row; a call for an id without rows raises and leaves the
\* store as it was; and the existence check of an ingestion that runs
\* after the delete, the id having no rows, does not answer AlreadyExists.
C36_DeleteById ==
    [][/\ (del.pc = "found" /\ del'.out = "deleted")
          => /\ RowsOf(store', del.id) = {}
             /\ store' = {r \in store : r.rowid # del.id}
       /\ (del.pc = "idle" /\ del' # del /\ RowsOf(store, del'.id) = {})
          => /\ del'.pc = "idle" /\ del'.out = "raised"
             /\ store' = store
       /\ \A p \in Procs :
             ( /\ task[p].pc = "check" /\ task'[p] # task[p]
               /\ del.out = "deleted" /\ del.id = task[p].id
               /\ RowsOf(store, task[p].id) = {} )
             => /\ task'[p].pc = "embed" \/ ret'[p].kind = "Raised"
                /\ ret'[p].kind # "AlreadyExists"
      ]_vars

\* a document was stored in full, deleted, and stored again by a second
\* call
C36_Witness ==
    \E b \in Pdfs :
        /\ del.pc = "idle" /\ del.out = "deleted" /\ del.id = Sha256(b)
        /\ ing[b].started = 2 /\ ing[b].finished = 2
        /\ ing[b].first_full /\ ing[b].last = "Stored"
        /\ OneSet(store, b)

\* C37: for a call of get_similarity whose filters carry an empty list of
\* text terms, the stage-1 query is a statement the server accepts and it
\* selects the documents the query without filters selects.
C37_EmptyTermsAreNoFilter ==
    ( /\ rd.pc # "idle"
      /\ \E i \in 1..Len(rd.filters) :
            rd.filters[i].k = TEXT_FILTER /\ rd.filters[i].v = <<>> )
    => LET query == _get_similarity_query_high_level(
                        rd.emb, rd.limit, rd.n, rd.filters)
           plain == _get_similarity_query_high_level(
                        rd.emb, rd.limit, rd.n, <<>>)
       IN  /\ SqlValid1(query) = SqlValid1(plain)
           /\ HighLevelRows(store, query) = HighLevelRows(store, plain)

\* C38: a call of connect_to_db makes at most 5 attempts and sleeps 3
\* seconds after each failed one; when it returns a connection, the attempt
\* that connected was the first to succeed and the last one made; it
\* raises only after 5 failed attempts; and every call ends.
C38_ConnectRetries ==
    /\ [](/\ cn.attempts <= Retries
          /\ cn.pc = "loop" => cn.slept = SleepSeconds * cn.failures
          /\ (cn.pc = "idle" /\ cn.result = "connected")
             => /\ cn.attempts = cn.failures + 1
                /\ cn.slept = SleepSeconds * cn.failures
          /\ (cn.pc = "idle" /\ cn.result = "raised")
             => /\ cn.failures = Retries
                /\ cn.attempts = Retries)
    /\ ((cn.pc # "idle") ~> (cn.pc = "idle"))

\* a call gave up after five failures and the next call connected at its
\* third attempt
C38_Witness ==
    /\ cn.pc = "idle" /\ cn.result = "connected"
    /\ cn.prev = "raised"
    /\ cn.attempts = 3 /\ cn.failures = 2 /\ cn.slept = 2 * SleepSeconds

====
